---- MODULE Spec2Model ----
(***************************************************************************)
(* Damage-tracked output renderer (backend/renderer/damage.rs).            *)
(*                                                                         *)
(* The tracker (DamageTrackedRenderer) is modelled with its RendererState  *)
(* and its two entry points damage_output and render_output; the caller's  *)
(* scene (the element list of the next frame), the elements' commit        *)
(* counters and the Output an Auto-mode tracker reads are the environment. *)
(* Option<T> is a sequence of length 0 (None) or 1 (Some).                 *)
(*                                                                         *)
(* The pointer grab of a compositor-started drag and its data offers       *)
(* (wayland/data_device/server_dnd_grab.rs) are modelled beside it.        *)
(***************************************************************************)
EXTENDS Integers, Sequences, FiniteSets, TLC

\* ------------------------------------------------------------------ bounds
MaxFrames == 3      \* calls of damage_output / render_output in one run
MaxEdits  == 1      \* scene or output changes between two calls
MaxElems  == 2      \* elements in the list handed to one call
MaxCommit == 1      \* commits of one element
MaxAge    == 2      \* largest buffer age a call is made with
MaxInitElems == 1   \* elements of the scene a run of SpecScenes starts with
MaxListElems == 3   \* elements of the list a run of SpecLists calls with
MaxListFrames == 2  \* calls in one run of SpecLists
MaxRequests == 6    \* pointer events and requests of one drag
MaxOffers == 2      \* surfaces the pointer of one drag enters

\* ------------------------------------------------------------------ Option
None == << >>
Some(x) == << x >>
IsSome(o) == Len(o) = 1
Unwrap(o) == o[1]

\* ------------------------------------------------------- rectangle algebra
\* utils::Rectangle (location + size, inclusive-exclusive) and utils::Size.
Rect(x, y, w, h) == [x |-> x, y |-> y, w |-> w, h |-> h]

FromLocAndSize(loc, size) == Rect(loc[1], loc[2], size[1], size[2])

RectSize(r) == << r.w, r.h >>

IsEmpty(r) == r.w <= 0 \/ r.h <= 0

Pixels(r) == { << px, py >> : px \in r.x .. (r.x + r.w - 1), py \in r.y .. (r.y + r.h - 1) }

Overlaps(a, b) ==
    /\ ~IsEmpty(a) /\ ~IsEmpty(b)
    /\ a.x < b.x + b.w /\ b.x < a.x + a.w
    /\ a.y < b.y + b.h /\ b.y < a.y + a.h

Max2(a, b) == IF a >= b THEN a ELSE b
Min2(a, b) == IF a <= b THEN a ELSE b

FromExtremities(x1, y1, x2, y2) == Rect(x1, y1, x2 - x1, y2 - y1)

Intersection(a, b) ==
    IF ~Overlaps(a, b) THEN None
    ELSE Some(FromExtremities(Max2(a.x, b.x), Max2(a.y, b.y),
                              Min2(a.x + a.w, b.x + b.w), Min2(a.y + a.h, b.y + b.h)))

Merge(a, b) ==
    FromExtremities(Min2(a.x, b.x), Min2(a.y, b.y),
                    Max2(a.x + a.w, b.x + b.w), Max2(a.y + a.h, b.y + b.h))

SelectNonEmpty(rs) == SelectSeq(rs, LAMBDA r : ~IsEmpty(r))

\* a minus b as 0..4 non-overlapping rectangles: the bands above and below
\* the intersection over the full width, then left and right of it.
SubtractRect(a, b) ==
    IF ~Overlaps(a, b) THEN << a >>
    ELSE LET i == Unwrap(Intersection(a, b))
         IN  SelectNonEmpty(<<
                 FromExtremities(a.x, a.y, a.x + a.w, i.y),
                 FromExtremities(a.x, i.y + i.h, a.x + a.w, a.y + a.h),
                 FromExtremities(a.x, i.y, i.x, i.y + i.h),
                 FromExtremities(i.x + i.w, i.y, a.x + a.w, i.y + i.h) >>)

Translate(r, dx, dy) == [r EXCEPT !.x = r.x + dx, !.y = r.y + dy]

\* ------------------------------------------------------- sequence helpers
RECURSIVE Flatten(_)
Flatten(ss) == IF ss = << >> THEN << >> ELSE Head(ss) \o Flatten(Tail(ss))

MapSeq(s, F(_)) == [i \in 1 .. Len(s) |-> F(s[i])]

Take(s, n) == SubSeq(s, 1, Min2(n, Len(s)))

\* rects.into_iter().flat_map(|r| r.subtract_rect(region)).collect()
SubtractFrom(rects, region) == Flatten(MapSeq(rects, LAMBDA r : SubtractRect(r, region)))

\* regions.fold(rects, |acc, region| acc.flat_map(subtract_rect(region)))
RECURSIVE SubtractAll(_, _)
SubtractAll(rects, regions) ==
    IF regions = << >> THEN rects
    ELSE SubtractAll(SubtractFrom(rects, Head(regions)), Tail(regions))

\* rects.filter_map(|r| r.intersection(geo)).collect()
ClipAll(rects, geo) == Flatten(MapSeq(rects, LAMBDA r : Intersection(r, geo)))

Cover(rects) == UNION { Pixels(rects[i]) : i \in 1 .. Len(rects) }


\* ------------------------------------------------------------ environment
\* Element ids of the caller's scene; an element of OpaqueIds declares its
\* whole extent opaque, the others declare no opaque region.
Ids == {"A", "B", "C"}

\* The ids of the elements a scene starts with and of those that enter it
\* one at a time.
SceneIds == {"A", "B"}
OpaqueIds == {"B"}

\* Geometries (physical, at the output scale) an element can be given: the
\* left column and the top row of the 2x2 output, and a rectangle that
\* reaches over its right and bottom edges (and lies outside smaller outputs).
Geoms == { Rect(0, 0, 1, 2), Rect(0, 0, 2, 1), Rect(1, 1, 2, 2) }

\* Output::current_mode().size of the Output an Auto tracker is bound to.
Sizes == { << 2, 2 >>, << 2, 1 >> }
Transforms == {"Normal", "_90"}

\* Transform::transform_size: the rotations by 90 and 270 degrees swap w and h.
TransformSize(t, size) == IF t = "_90" THEN << size[2], size[1] >> ELSE size

\* One element of the list handed to a call: Element::id, ::geometry and
\* ::current_commit as sampled during the call.
Element(id, geometry, c) == [id |-> id, geometry |-> geometry, commit |-> c]

\* Element::opaque_regions (element-local coordinates).
ElementOpaqueRegions(e) ==
    IF e.id \in OpaqueIds THEN << Rect(0, 0, e.geometry.w, e.geometry.h) >> ELSE << >>

\* Element::damage_since (element-local coordinates): the full extent for
\* no prior commit, nothing for the current commit; every commit of the
\* modelled elements repaints the element's top left pixel.
CommitDamage == << Rect(0, 0, 1, 1) >>

ElementDamageSince(e, prior) ==
    IF prior = None THEN << Rect(0, 0, e.geometry.w, e.geometry.h) >>
    ELSE IF Unwrap(prior) = e.commit THEN << >>
    ELSE CommitDamage

\* The element list of a call: the scene with the commit counters sampled.
ElementsOf(sc, cm) == [i \in 1 .. Len(sc) |-> Element(sc[i].id, sc[i].geometry, cm[sc[i].id])]

\* ----------------------------------------------------------------- state
VARIABLES
    mode,        \* DamageTrackedRenderer::mode
    last_state,  \* DamageTrackedRenderer::last_state (RendererState)
    output,      \* the Output of an Auto tracker: current mode and transform
    scene,       \* the caller's scene, front to back: << [id, geometry] >>
    commit,      \* commit counter of each element id
    ret,         \* what the last call returned, while the caller holds it
    backend,     \* Renderer / Frame calls of the last render_output
    call,        \* the last call: entry point, age, elements, output_geo
    shown,       \* the frame the buffers show
    repeat,      \* the last call repeated the call before it
    frames,      \* calls made so far
    edits,       \* scene / output changes since the last call
    grab,           \* the ServerDnDGrab is the grab of the pointer
    current_focus,  \* ServerDnDGrab::current_focus
    offer_data,     \* ServerDnDGrab::offer_data: the index in offers of the shared data
    offers,         \* every ServerDndOfferData created so far, in order of creation
    finished,       \* calls of handler.finished made for each of them
    dnd,            \* the last pointer event or request and the calls it made
    requests        \* pointer events and requests handled so far

tracker_vars == << mode, last_state, output, scene, commit, ret, backend, call, shown, repeat,
                   frames, edits >>

dnd_vars == << grab, current_focus, offer_data, offers, finished, dnd, requests >>

vars == << mode, last_state, output, scene, commit, ret, backend, call, shown, repeat,
           frames, edits, grab, current_focus, offer_data, offers, finished, dnd, requests >>

\* RendererState::default()
DefaultState == [size |-> None, elements |-> << >>, old_damage |-> << >>]

\* ElementInstanceState::matches
InstanceMatches(inst, geometry, z_index) ==
    inst.last_geometry = geometry /\ inst.last_z_index = z_index

\* ElementState::instance_matches
ElementInstanceMatches(state, geometry, z_index) ==
    \E i \in 1 .. Len(state.last_instances) :
        InstanceMatches(state.last_instances[i], geometry, z_index)

\* IndexMap::get on RendererState::elements (a sequence in insertion order)
GetElementState(elements, id) ==
    LET hits == SelectSeq(elements, LAMBDA s : s.id = id)
    IN  IF hits = << >> THEN None ELSE Some(hits[1])

\* A faulty variant of ResolveMode: an Output without a current mode
\* resolves to the default size.
ResolveModeOrDefault(m, o) ==
    IF m.kind = "Auto"
    THEN Some([size |-> IF o.current_mode = None THEN << 0, 0 >> ELSE Unwrap(o.current_mode),
               transform |-> o.transform])
    ELSE Some([size |-> m.size, transform |-> m.transform])

\* TryInto<(Size, Scale, Transform)> for DamageTrackedRendererMode
ResolveMode(m, o) ==
    IF m.kind = "Auto"
    THEN IF o.current_mode = None THEN None
         ELSE Some([size |-> Unwrap(o.current_mode), transform |-> o.transform])
    ELSE Some([size |-> m.size, transform |-> m.transform])

OutputGeo(resolved) ==
    FromLocAndSize(<< 0, 0 >>, TransformSize(resolved.transform, resolved.size))


\* ------------------------------------------- damage_output_internal, A - C
\* RenderElementState values of the report; an id without an entry in
\* RenderElementStates::states is Absent.
Absent == [presentation_state |-> "Absent", visible_area |-> 0]
Skipped == [presentation_state |-> "Skipped", visible_area |-> 0]
Rendered(area) == [presentation_state |-> "Rendered", visible_area |-> area]

\* A faulty variant of AreaSum: widths and heights are taken between
\* inclusive coordinates, one less than the size.
AreaSumInclusive(rects) ==
    LET Sum[k \in 0 .. Len(rects)] ==
            IF k = 0 THEN 0 ELSE (rects[k].w - 1) * (rects[k].h - 1) + Sum[k - 1]
    IN  Sum[Len(rects)]

RECURSIVE AreaSum(_)
AreaSum(rects) ==
    IF rects = << >> THEN 0 ELSE Head(rects).w * Head(rects).h + AreaSum(Tail(rects))

\* opaque_regions.iter().flat_map(|(_, regions)| regions)
AllRegions(opaque_regions) == Flatten(MapSeq(opaque_regions, LAMBDA o : o.regions))

\* opaque_regions.iter().filter(|(index, _)| *index < z_index).flat_map(..)
RegionsInFront(opaque_regions, z_index) ==
    AllRegions(SelectSeq(opaque_regions, LAMBDA o : o.index < z_index))

\* The accumulators of the first loop before its first iteration.
EmptyAnalysis ==
    [damage |-> << >>, render_elements |-> << >>, opaque_regions |-> << >>,
     states |-> [id \in Ids |-> Absent], z_index |-> 0]

\* A faulty variant of VisibleArea: the area under each opaque region is
\* taken off on its own, the pixels under two regions twice.
VisibleAreaPerRegion(element_output_geometry, opaque_regions) ==
    LET regions == AllRegions(opaque_regions)
        Left[k \in 0 .. Len(regions)] ==
            IF k = 0 THEN AreaSum(<< element_output_geometry >>)
            ELSE Left[k - 1] - AreaSum(Intersection(element_output_geometry, regions[k]))
    IN  IF Left[Len(regions)] < 0 THEN 0 ELSE Left[Len(regions)]

\* A faulty variant of VisibleArea: the opaque regions are not subtracted.
VisibleAreaUnoccluded(element_output_geometry, opaque_regions) ==
    AreaSum(<< element_output_geometry >>)

\* element_visible_area: what the opaque regions collected so far leave of
\* the clipped geometry.
VisibleArea(element_output_geometry, opaque_regions) ==
    AreaSum(SubtractAll(<< element_output_geometry >>, AllRegions(opaque_regions)))

\* A faulty variant of OffOutput: the element enters the render list.
OffOutputRendered(acc, element) ==
    [acc EXCEPT !.render_elements = Append(@, element),
                !.opaque_regions = Append(@, [index |-> acc.z_index, regions |-> << >>]),
                !.z_index = @ + 1]

\* A faulty variant of OffOutput: the element is recorded as Skipped.
OffOutputSkipped(acc, element) ==
    [acc EXCEPT !.states[element.id] = IF @.presentation_state = "Absent" THEN Skipped ELSE @]

\* The accumulators after an element that does not overlap the output:
\* `None => continue`.
OffOutput(acc, element) == acc

\* The report entry of an id after a completely hidden occurrence: "do not
\* override the state if we already have one".
ReportSkipped(old) == IF old.presentation_state = "Absent" THEN Skipped ELSE old

\* A faulty variant of ReportRendered: the entry is overwritten.
ReportRenderedLast(old, element_visible_area) == Rendered(element_visible_area)

\* The report entry of an id after a visible occurrence: rendered, with the
\* visible area added to that of an entry that is not Skipped.
ReportRendered(old, element_visible_area) ==
    IF old.presentation_state = "Rendered"
    THEN Rendered(old.visible_area + element_visible_area)
    ELSE Rendered(element_visible_area)

\* A faulty variant of ElementOutputDamage: the rectangles stay in
\* element-local coordinates.
ElementOutputDamageLocal(element, prior, output_geo) ==
    ClipAll(ElementDamageSince(element, prior), output_geo)

\* The damage of a visible element since the commit recorded for its id,
\* in output coordinates and clipped to the output.
ElementOutputDamage(element, prior, output_geo) ==
    ClipAll(MapSeq(ElementDamageSince(element, prior),
                   LAMBDA d : Translate(d, element.geometry.x, element.geometry.y)),
            output_geo)

\* One iteration of the loop over the elements in scene order.
ElementStep(acc, element, st, output_geo) ==
    LET clipped == Intersection(element.geometry, output_geo)
    IN  IF clipped = None THEN OffOutput(acc, element)
        ELSE
        LET element_output_geometry == Unwrap(clipped)
            element_visible_area == VisibleArea(element_output_geometry, acc.opaque_regions)
            last == GetElementState(st.elements, element.id)
            prior == IF last = None THEN None ELSE Some(Unwrap(last).last_commit)
            element_output_damage == ElementOutputDamage(element, prior, output_geo)
            element_opaque_regions ==
                ClipAll(MapSeq(ElementOpaqueRegions(element),
                               LAMBDA r : Translate(r, element.geometry.x, element.geometry.y)),
                        output_geo)
            old == acc.states[element.id]
        IN  IF element_visible_area = 0
            THEN [acc EXCEPT !.states[element.id] = ReportSkipped(old)]
            ELSE [damage |-> acc.damage \o element_output_damage,
                  render_elements |-> Append(acc.render_elements, element),
                  opaque_regions |-> Append(acc.opaque_regions,
                                            [index |-> acc.z_index, regions |-> element_opaque_regions]),
                  states |-> [acc.states EXCEPT ![element.id] =
                                 ReportRendered(old, element_visible_area)],
                  z_index |-> acc.z_index + 1]

RECURSIVE ElementLoop(_, _, _, _)
ElementLoop(acc, elements, st, output_geo) ==
    IF elements = << >> THEN acc
    ELSE ElementLoop(ElementStep(acc, Head(elements), st, output_geo), Tail(elements), st, output_geo)

\* The damage of the elements of the last state that are gone.
ElementsGone(st, render_elements, opaque_regions) ==
    LET gone == SelectSeq(st.elements,
                    LAMBDA s : ~\E i \in 1 .. Len(render_elements) : render_elements[i].id = s.id)
        GoneDamage(state) ==
            SubtractAll(
                MapSeq(state.last_instances, LAMBDA i : i.last_geometry),
                AllRegions(SelectSeq(opaque_regions,
                    LAMBDA o : \E i \in 1 .. Len(state.last_instances) :
                                   o.index < state.last_instances[i].last_z_index)))
    IN  Flatten(MapSeq(gone, GoneDamage))

\* A faulty variant of MovedDamage: the prior instances are left out.
MovedDamageNewOnly(st, element, z_index, opaque_regions) ==
    LET element_last_state == GetElementState(st.elements, element.id)
        changed == IF element_last_state = None THEN TRUE
                   ELSE ~ElementInstanceMatches(Unwrap(element_last_state), element.geometry, z_index)
    IN  IF changed THEN SubtractAll(<< element.geometry >>, RegionsInFront(opaque_regions, z_index))
        ELSE << >>

\* The damage of the render element at z_index if it moved or its z changed.
MovedDamage(st, element, z_index, opaque_regions) ==
    LET element_last_state == GetElementState(st.elements, element.id)
        changed == IF element_last_state = None THEN TRUE
                   ELSE ~ElementInstanceMatches(Unwrap(element_last_state), element.geometry, z_index)
        element_damage ==
            << element.geometry >> \o
            (IF element_last_state = None THEN << >>
             ELSE MapSeq(Unwrap(element_last_state).last_instances, LAMBDA i : i.last_geometry))
    IN  IF changed THEN SubtractAll(element_damage, RegionsInFront(opaque_regions, z_index))
        ELSE << >>

ElementsMoved(st, render_elements, opaque_regions) ==
    Flatten([k \in 1 .. Len(render_elements) |->
                MovedDamage(st, render_elements[k], k - 1, opaque_regions)])


\* ------------------------------------------- damage_output_internal, D - H
\* Vec::dedup: consecutive equal rectangles collapse into the first.
RECURSIVE Dedup(_)
Dedup(rects) ==
    IF Len(rects) <= 1 THEN rects
    ELSE IF rects[1] = rects[2] THEN Dedup(Tail(rects))
    ELSE << rects[1] >> \o Dedup(Tail(rects))

RECURSIVE MergeAll(_, _)
MergeAll(rect, overlapping) ==
    IF overlapping = << >> THEN rect
    ELSE MergeAll(Merge(rect, Head(overlapping)), Tail(overlapping))

\* The closure of the fold: the rectangles of new_damage that overlap rect
\* are merged into it, the others are kept, the merged rect is pushed.
MergeStep(new_damage, rect) ==
    LET overlapping == SelectSeq(new_damage, LAMBDA other : Overlaps(other, rect))
        kept == SelectSeq(new_damage, LAMBDA other : ~Overlaps(other, rect))
    IN  Append(kept, MergeAll(rect, overlapping))

RECURSIVE MergeFold(_, _)
MergeFold(new_damage, rects) ==
    IF rects = << >> THEN new_damage
    ELSE MergeFold(MergeStep(new_damage, Head(rects)), Tail(rects))

\* A faulty variant of OptimizeDamage: the retain keeps the rectangles that
\* do not overlap the output.
OptimizeDamageRetainOutside(damage, output_geo) ==
    LET deduped == Dedup(damage)
        outside == SelectSeq(deduped, LAMBDA r : ~Overlaps(r, output_geo))
        nonempty == SelectSeq(outside, LAMBDA r : ~IsEmpty(r))
    IN  MergeFold(<< >>, ClipAll(nonempty, output_geo))

\* "Optimize the damage for rendering"
OptimizeDamage(damage, output_geo) ==
    LET deduped == Dedup(damage)
        inside == SelectSeq(deduped, LAMBDA r : Overlaps(r, output_geo))
        nonempty == SelectSeq(inside, LAMBDA r : ~IsEmpty(r))
    IN  MergeFold(<< >>, ClipAll(nonempty, output_geo))

\* A faulty variant of NewElementsState: a repeated id keeps only its last
\* instance.
NewElementsStateOneInstance(map, render_elements, z_index) ==
    LET Fold[k \in 0 .. Len(render_elements)] ==
            IF k = 0 THEN map
            ELSE LET elem == render_elements[k]
                     inst == [last_geometry |-> elem.geometry, last_z_index |-> z_index + k - 1]
                     prev == Fold[k - 1]
                 IN  IF \E i \in 1 .. Len(prev) : prev[i].id = elem.id
                     THEN [i \in 1 .. Len(prev) |->
                             IF prev[i].id = elem.id
                             THEN [prev[i] EXCEPT !.last_instances = << inst >>]
                             ELSE prev[i]]
                     ELSE Append(prev, [id |-> elem.id, last_commit |-> elem.commit,
                                        last_instances |-> << inst >>])
    IN  Fold[Len(render_elements)]

\* A faulty variant of NewElementsState: every instance is recorded with
\* the z-index the fold started from.
NewElementsStateFlatZ(map, render_elements, z_index) ==
    LET Fold[k \in 0 .. Len(render_elements)] ==
            IF k = 0 THEN map
            ELSE LET elem == render_elements[k]
                     inst == [last_geometry |-> elem.geometry, last_z_index |-> z_index]
                     prev == Fold[k - 1]
                 IN  IF \E i \in 1 .. Len(prev) : prev[i].id = elem.id
                     THEN [i \in 1 .. Len(prev) |->
                             IF prev[i].id = elem.id
                             THEN [prev[i] EXCEPT !.last_instances = Append(@, inst)]
                             ELSE prev[i]]
                     ELSE Append(prev, [id |-> elem.id, last_commit |-> elem.commit,
                                        last_instances |-> << inst >>])
    IN  Fold[Len(render_elements)]

\* The fold that builds the new IndexMap<Id, ElementState>.
RECURSIVE NewElementsState(_, _, _)
NewElementsState(map, render_elements, z_index) ==
    IF render_elements = << >> THEN map
    ELSE
    LET elem == Head(render_elements)
        inst == [last_geometry |-> elem.geometry, last_z_index |-> z_index]
        known == \E i \in 1 .. Len(map) : map[i].id = elem.id
        next == IF known
                THEN [i \in 1 .. Len(map) |->
                        IF map[i].id = elem.id
                        THEN [map[i] EXCEPT !.last_instances = Append(@, inst)]
                        ELSE map[i]]
                ELSE Append(map, [id |-> elem.id, last_commit |-> elem.commit,
                                  last_instances |-> << inst >>])
    IN  NewElementsState(next, Tail(render_elements), z_index + 1)

\* A faulty variant of SizeChanged: only a missing size counts as a change.
SizeChangedFirstOnly(st, output_geo) == st.size = None

\* "The output geometry changed": the output size differs from the recorded
\* one, or none is recorded.
SizeChanged(st, output_geo) ==
    IF st.size = None THEN TRUE ELSE Unwrap(st.size) # RectSize(output_geo)

\* A faulty variant of UseOldDamage: age 0 is not told from a usable age.
UseOldDamageAnyAge(st, age) == Len(st.old_damage) >= age

\* "age of {} recent enough, using old damage"
UseOldDamage(st, age) == age > 0 /\ Len(st.old_damage) >= age

\* A faulty variant of TruncatedOldDamage: the history is never truncated.
TruncatedOldDamageKeep(st, age) == st.old_damage

\* old_damage as the age handling leaves it: truncated to age entries if
\* the age is usable.
TruncatedOldDamage(st, age) ==
    IF UseOldDamage(st, age) THEN Take(st.old_damage, age) ELSE st.old_damage

\* A faulty variant of AgedDamage: the recorded damage is not added.
AgedDamageNewOnly(st, age, new_damage, output_geo) ==
    IF UseOldDamage(st, age) THEN new_damage ELSE << output_geo >>

\* The damage after the age handling: the new damage and the damage of the
\* age most recent recorded frames, or the whole output.
AgedDamage(st, age, new_damage, output_geo) ==
    IF UseOldDamage(st, age)
    THEN new_damage \o Flatten(TruncatedOldDamage(st, age))
    ELSE << output_geo >>

\* The damage of this frame alone, before the output size is looked at.
ElementDamage(st, a) ==
    a.damage \o ElementsGone(st, a.render_elements, a.opaque_regions)
             \o ElementsMoved(st, a.render_elements, a.opaque_regions)

\* A faulty variant of StateAfter: the damage with the recorded damage
\* added is pushed to the history.
StateAfterPushesDamage(st, old_damage, damage, new_damage, render_elements, output_geo) ==
    IF damage = << >>
    THEN [st EXCEPT !.old_damage = old_damage]
    ELSE [size |-> Some(RectSize(output_geo)),
          elements |-> NewElementsState(<< >>, render_elements, 0),
          old_damage |-> << damage >> \o old_damage]

\* A faulty variant of StateAfter: the state is updated also when nothing
\* is damaged.
StateAfterAlways(st, old_damage, damage, new_damage, render_elements, output_geo) ==
    [size |-> Some(RectSize(output_geo)),
     elements |-> NewElementsState(<< >>, render_elements, 0),
     old_damage |-> << new_damage >> \o old_damage]

\* The RendererState a call leaves behind: "nothing damaged, exiting early"
\* leaves all but the truncated old_damage, otherwise size, elements and
\* old_damage are updated.
StateAfter(st, old_damage, damage, new_damage, render_elements, output_geo) ==
    IF damage = << >>
    THEN [st EXCEPT !.old_damage = old_damage]
    ELSE [size |-> Some(RectSize(output_geo)),
          elements |-> NewElementsState(<< >>, render_elements, 0),
          old_damage |-> << new_damage >> \o old_damage]

\* DamageTrackedRenderer::damage_output_internal: the out-parameters damage,
\* render_elements and opaque_regions, the returned states, and the
\* RendererState the call leaves behind.
DamageOutputInternal(st, age, elements, output_geo) ==
    LET a == ElementLoop(EmptyAnalysis, elements, st, output_geo)
        new_damage == IF SizeChanged(st, output_geo) THEN << output_geo >> ELSE ElementDamage(st, a)
        old_damage == TruncatedOldDamage(st, age)
        damage == OptimizeDamage(AgedDamage(st, age, new_damage, output_geo), output_geo)
    IN  [damage |-> damage,
         render_elements |-> a.render_elements,
         opaque_regions |-> a.opaque_regions,
         states |-> a.states,
         new_damage |-> new_damage,
         state |-> StateAfter(st, old_damage, damage, new_damage, a.render_elements, output_geo)]


\* ------------------------------------------------------ the paint closure
\* One call on the Renderer / Frame / RenderElement::draw of render_output.
BackendCall(op, id, geometry, damage, z_index) ==
    [op |-> op, id |-> id, geometry |-> geometry, damage |-> damage, z_index |-> z_index, ok |-> TRUE]

\* A faulty variant of ClearDamage: the opaque regions are not subtracted.
ClearDamageAll(damage, opaque_regions) == damage

\* clear_damage: the damage minus every opaque region
ClearDamage(damage, opaque_regions) == SubtractAll(damage, AllRegions(opaque_regions))

\* A faulty variant of DrawDamage: the opaque regions in front are not
\* subtracted.
DrawDamageUnoccluded(damage, element, z_index, opaque_regions) ==
    MapSeq(ClipAll(damage, element.geometry),
           LAMBDA d : Translate(d, 0 - element.geometry.x, 0 - element.geometry.y))

\* element_damage of the render element at scene-order z_index, element-local
DrawDamage(damage, element, z_index, opaque_regions) ==
    MapSeq(SubtractAll(ClipAll(damage, element.geometry), RegionsInFront(opaque_regions, z_index)),
           LAMBDA d : Translate(d, 0 - element.geometry.x, 0 - element.geometry.y))

\* A faulty variant of DrawCalls: the index of the reversed enumeration is
\* taken as the z-index.
DrawCallsReversedIndex(damage, render_elements, opaque_regions, i) ==
    LET Calls[k \in i .. Len(render_elements)] ==
            IF k >= Len(render_elements) THEN << >>
            ELSE LET element == render_elements[Len(render_elements) - k]
                     element_damage == DrawDamage(damage, element, k, opaque_regions)
                 IN  IF element_damage = << >> THEN Calls[k + 1]
                     ELSE << BackendCall("draw", element.id, element.geometry, element_damage, k) >>
                          \o Calls[k + 1]
    IN  Calls[i]

\* The draw calls of render_elements.iter().rev().enumerate(), the elements
\* without damage skipped.
RECURSIVE DrawCalls(_, _, _, _)
DrawCalls(damage, render_elements, opaque_regions, i) ==
    IF i >= Len(render_elements) THEN << >>
    ELSE
    LET z_index == Len(render_elements) - 1 - i
        element == render_elements[z_index + 1]
        element_damage == DrawDamage(damage, element, z_index, opaque_regions)
        rest == DrawCalls(damage, render_elements, opaque_regions, i + 1)
    IN  IF element_damage = << >> THEN rest
        ELSE << BackendCall("draw", element.id, element.geometry, element_damage, z_index) >> \o rest

\* Every backend call of the closure when none fails, in order.
PaintCalls(resolved, r) ==
    << BackendCall("render", "", FromLocAndSize(<< 0, 0 >>, resolved.size), << >>, 0),
       BackendCall("clear", "", Rect(0, 0, 0, 0), ClearDamage(r.damage, r.opaque_regions), 0) >>
    \o DrawCalls(r.damage, r.render_elements, r.opaque_regions, 0)

\* A faulty variant of PaintPlan: the frame is opened and cleared also
\* without damage.
PaintPlanAlways(resolved, r) == PaintCalls(resolved, r)

\* The backend calls render_output is about to make: none without damage.
PaintPlan(resolved, r) == IF r.damage = << >> THEN << >> ELSE PaintCalls(resolved, r)

\* A faulty variant of AfterRenderError: the state of the analysis is kept.
AfterRenderErrorKeep(st) == st

\* "clean our old states before returning": the state after a backend error
AfterRenderError(st) == DefaultState

\* A faulty variant of CallsUntil: the calls after the failing one are made.
CallsUntilContinue(calls, fail) ==
    [i \in 1 .. Len(calls) |-> IF i = fail THEN [calls[i] EXCEPT !.ok = FALSE] ELSE calls[i]]

\* The calls made when the fail-th call returns an error (0: none does):
\* the `?` leaves the closure at the first error.
CallsUntil(calls, fail) ==
    IF fail = 0 THEN calls
    ELSE [i \in 1 .. fail |-> IF i = fail THEN [calls[i] EXCEPT !.ok = FALSE] ELSE calls[i]]

\* ------------------------------------------------------------ the calls
OkRet(damage, states) ==
    [kind |-> "Ok", damage |-> IF damage = << >> THEN None ELSE Some(damage), states |-> states]

ErrRet(kind) == [kind |-> kind, damage |-> None, states |-> [id \in Ids |-> Absent]]

\* A faulty variant of RenderResult: empty damage is returned as Some.
RenderResultSome(damage, states) == [kind |-> "Ok", damage |-> Some(damage), states |-> states]

\* What render_output returns when no backend call fails: "no damage,
\* skipping rendering" returns None, otherwise the damage.
RenderResult(damage, states) == OkRet(damage, states)

\* A call as the caller saw it: the entry point, its arguments, the resolved
\* output_geo, and for the properties what the tracker held when it was
\* made (what the buffers showed, the length of old_damage, the recorded
\* size) and the new damage the analysis computed ("new_damage").
CallOf(op, age, elements, geo, st, new_damage) ==
    [op |-> op, age |-> age, elements |-> elements, output_geo |-> geo,
     before |-> shown.status, history |-> Len(st.old_damage), size |-> st.size,
     new_damage |-> new_damage]

\* No call whose result the caller still holds.
NoCall ==
    [op |-> "none", age |-> 0, elements |-> << >>, output_geo |-> None,
     before |-> "fresh", history |-> 0, size |-> None, new_damage |-> << >>]

\* What the buffers show once a call has returned: the frame of the call if
\* it returned damage, nothing reliable after a backend error, and what
\* they showed before if the call returned no damage or OutputNoMode.
Shown(status, elements, geo) == [status |-> status, elements |-> elements, output_geo |-> geo]

ShownAfter(r, c) ==
    IF r.kind = "Rendering" THEN Shown("error", << >>, None)
    ELSE IF r.kind = "Ok" /\ r.damage # None THEN Shown("painted", c.elements, c.output_geo)
    ELSE shown

\* The call is a damage_output that repeats the damage_output before it:
\* no change of the scene or the output in between, the same age, both Ok.
Repeats(r, c) ==
    /\ edits = 0
    /\ ret.kind = "Ok" /\ r.kind = "Ok"
    /\ c.op = "damage_output" /\ call.op = "damage_output"
    /\ c.age = call.age /\ c.elements = call.elements /\ c.output_geo = call.output_geo

Returns(r, c) ==
    /\ ret' = r
    /\ call' = c
    /\ shown' = ShownAfter(r, c)
    /\ repeat' = Repeats(r, c)
    /\ frames' = frames + 1
    /\ edits' = 0
    /\ UNCHANGED << mode, output, scene, commit >>
    /\ UNCHANGED dnd_vars

\* DamageTrackedRenderer::damage_output
DamageOutput(age) ==
    /\ frames < MaxFrames
    /\ backend' = << >>
    /\ LET resolved == ResolveMode(mode, output)
           elements == ElementsOf(scene, commit)
       IN  IF resolved = None
           THEN /\ Returns(ErrRet("OutputNoMode"),
                           CallOf("damage_output", age, elements, None, last_state, << >>))
                /\ UNCHANGED last_state
           ELSE LET output_geo == OutputGeo(Unwrap(resolved))
                IN  \E r \in { DamageOutputInternal(last_state, age, elements, output_geo) } :
                        /\ Returns(OkRet(r.damage, r.states),
                                   CallOf("damage_output", age, elements, Some(output_geo),
                                          last_state, r.new_damage))
                        /\ last_state' = r.state

\* DamageTrackedRenderer::render_output; the backend makes the fail-th call
\* of the paint closure return an error (fail = 0: none).
RenderOutput(age) ==
    /\ frames < MaxFrames
    /\ LET resolved == ResolveMode(mode, output)
           elements == ElementsOf(scene, commit)
       IN  IF resolved = None
           THEN /\ Returns(ErrRet("OutputNoMode"),
                           CallOf("render_output", age, elements, None, last_state, << >>))
                /\ backend' = << >>
                /\ UNCHANGED last_state
           ELSE LET output_geo == OutputGeo(Unwrap(resolved))
                IN  \E r \in { DamageOutputInternal(last_state, age, elements, output_geo) } :
                    \E c \in { CallOf("render_output", age, elements, Some(output_geo),
                                      last_state, r.new_damage) } :
                    \E calls \in { PaintPlan(Unwrap(resolved), r) } :
                    \E fail \in 0 .. Len(calls) :
                        /\ backend' = CallsUntil(calls, fail)
                        /\ IF fail = 0
                           THEN /\ Returns(RenderResult(r.damage, r.states), c)
                                /\ last_state' = r.state
                           ELSE /\ Returns(ErrRet("Rendering"), c)
                                /\ last_state' = AfterRenderError(r.state)

\* ------------------------------------------------ the caller between calls
\* The caller changes the scene or the output once it is done with the
\* result of the last call.
Edit == /\ frames < MaxFrames
        /\ edits < MaxEdits
        /\ edits' = edits + 1
        /\ ret' = ErrRet("none")
        /\ call' = NoCall
        /\ backend' = << >>
        /\ repeat' = FALSE
        /\ UNCHANGED << mode, last_state, shown, frames >>
        /\ UNCHANGED dnd_vars

\* A new element enters the scene at position pos (1 = front).
AddElement(pos, id, geometry) ==
    /\ Edit
    /\ Len(scene) < MaxElems
    /\ pos \in 1 .. Len(scene) + 1
    /\ scene' = SubSeq(scene, 1, pos - 1) \o << [id |-> id, geometry |-> geometry] >>
                \o SubSeq(scene, pos, Len(scene))
    /\ UNCHANGED << output, commit >>

\* The element at position pos leaves the scene.
RemoveElement(pos) ==
    /\ Edit
    /\ pos \in 1 .. Len(scene)
    /\ scene' = SubSeq(scene, 1, pos - 1) \o SubSeq(scene, pos + 1, Len(scene))
    /\ UNCHANGED << output, commit >>

\* The element at position pos gets another geometry.
MoveElement(pos, geometry) ==
    /\ Edit
    /\ pos \in 1 .. Len(scene)
    /\ scene[pos].geometry # geometry
    /\ scene' = [scene EXCEPT ![pos].geometry = geometry]
    /\ UNCHANGED << output, commit >>

\* The element at position pos is raised over the one in front of it.
RaiseElement(pos) ==
    /\ Edit
    /\ pos \in 2 .. Len(scene)
    /\ scene' = [scene EXCEPT ![pos - 1] = scene[pos], ![pos] = scene[pos - 1]]
    /\ UNCHANGED << output, commit >>

\* The content of element id changes: its commit counter advances.
Commit(id) ==
    /\ Edit
    /\ commit[id] < MaxCommit
    /\ commit' = [commit EXCEPT ![id] = @ + 1]
    /\ UNCHANGED << output, scene >>

\* The Output of an Auto tracker changes its mode or transform.
SetOutput(current_mode, transform) ==
    /\ Edit
    /\ mode.kind = "Auto"
    /\ output' = [current_mode |-> current_mode, transform |-> transform]
    /\ output' # output
    /\ UNCHANGED << scene, commit >>

\* ------------------------------------------------------- server DnD grab
\* wayland/data_device/server_dnd_grab.rs: the pointer grab of a drag the
\* compositor started (ServerDnDGrab) and the data offers it hands out.
\* Every client has one data device; a DndAction is the set of its flags.
Surfaces == {"s1", "s2"}

\* SourceMetadata::mime_types and SourceMetadata::dnd_action of the drag,
\* and the mime types a client may name.
SourceMimeTypes == {"text/plain"}
SourceActions == {"Copy", "Move"}
ClientMimeTypes == {"text/plain", "image/png"}

\* The dnd_actions and preferred_action a client may send with set_actions,
\* and the actions DataDeviceHandler::action_choice may return.
ClientActions == { {}, {"Copy"}, {"Copy", "Move"}, {"Ask"} }
PreferredActions == { {}, {"Copy"}, {"Move"}, {"Copy", "Move"} }
ActionChoices == { {}, {"Copy"}, {"Move"} }

\* [DndAction::None, DndAction::Move, DndAction::Copy, DndAction::Ask]
OneAction == { {}, {"Move"}, {"Copy"}, {"Ask"} }

\* A call on the handler, a data device or the offer, or a protocol error
\* posted on the offer.
Event(name) == [call |-> name, action |-> {}]
ActionEvent(name, action) == [call |-> name, action |-> action]

\* The last pointer event or request: its name, the offer data it was for
\* (0: none) and the calls it made, in order.
Handled(name, offer, events) == [request |-> name, offer |-> offer, events |-> events]

\* The ServerDndOfferData of an offer made on entering a surface.
NewOfferData == [active |-> TRUE, dropped |-> FALSE, accepted |-> TRUE, chosen_action |-> {}]

\* ServerDnDGrab::new
GrabStarted ==
    /\ grab = TRUE
    /\ current_focus = None
    /\ offer_data = None
    /\ offers = << >>
    /\ finished = << >>
    /\ dnd = Handled("none", 0, << >>)
    /\ requests = 0

\* What a pointer event or a request leaves behind.
Handles(h) ==
    /\ requests < MaxRequests
    /\ requests' = requests + 1
    /\ dnd' = h
    /\ UNCHANGED tracker_vars

\* PointerGrab::motion; client_alive: dh.get_client(surface.id()) is Ok.
Motion(focus, client_alive) ==
    /\ grab
    /\ LET left == focus # current_focus /\ current_focus # None
           disabled == IF left /\ offer_data # None
                       THEN [offers EXCEPT ![Unwrap(offer_data)].active = FALSE]
                       ELSE offers
           focus_left == IF left THEN None ELSE current_focus
           data_left == IF left THEN None ELSE offer_data
           leave == IF left THEN << Event("device.leave") >> ELSE << >>
       IN  IF focus = None \/ ~client_alive
           THEN /\ offers' = disabled
                /\ current_focus' = focus_left
                /\ offer_data' = data_left
                /\ Handles(Handled("motion", 0, leave))
                /\ UNCHANGED finished
           ELSE IF focus_left = None
           THEN /\ Len(offers) < MaxOffers
                /\ offers' = Append(disabled, NewOfferData)
                /\ finished' = Append(finished, 0)
                /\ offer_data' = Some(Len(offers) + 1)
                /\ current_focus' = focus
                /\ Handles(Handled("motion", Len(offers) + 1,
                                   leave \o << Event("device.data_offer"),
                                               ActionEvent("offer.source_actions", SourceActions),
                                               Event("device.enter") >>))
           ELSE /\ Handles(Handled("motion", 0, << Event("device.motion") >>))
                /\ UNCHANGED << offers, finished, offer_data, current_focus >>
    /\ UNCHANGED grab

\* A faulty variant of Validated: the chosen action is not looked at.
ValidatedAccepted(data) ==
    IF data = None THEN FALSE ELSE offers[Unwrap(data)].accepted

\* validated of PointerGrab::button
Validated(data) ==
    IF data = None THEN FALSE
    ELSE offers[Unwrap(data)].accepted /\ offers[Unwrap(data)].chosen_action # {}

\* PointerGrab::button; released: handle.current_pressed().is_empty(). The
\* event is recorded as "button" if no button is left pressed and as
\* "button_pressed" otherwise.
Button(released) ==
    /\ grab
    /\ IF ~released
       THEN /\ Handles(Handled("button_pressed", 0, << >>))
            /\ UNCHANGED << grab, offers >>
       ELSE LET validated == Validated(offer_data)
                focused == current_focus # None
            IN  /\ offers' = IF offer_data = None THEN offers
                             ELSE IF validated
                                  THEN [offers EXCEPT ![Unwrap(offer_data)].dropped = TRUE]
                                  ELSE [offers EXCEPT ![Unwrap(offer_data)].active = FALSE]
                /\ grab' = FALSE
                /\ Handles(Handled("button", IF offer_data = None THEN 0 ELSE Unwrap(offer_data),
                       (IF focused /\ validated THEN << Event("device.drop") >> ELSE << >>)
                       \o << Event("handler.dropped") >>
                       \o (IF validated THEN << >> ELSE << Event("handler.cancelled") >>)
                       \o (IF focused THEN << Event("device.leave") >> ELSE << >>)
                       \o << Event("handle.unset_grab") >>))
    /\ UNCHANGED << current_focus, offer_data, finished >>

\* A request on offer i changes its data to data and makes the calls events.
Request(name, i, data, events) ==
    /\ offers' = [offers EXCEPT ![i] = data]
    /\ finished' = [finished EXCEPT
                       ![i] = @ + Len(SelectSeq(events, LAMBDA e : e.call = "handler.finished"))]
    /\ Handles(Handled(name, i, events))
    /\ UNCHANGED << grab, current_focus, offer_data >>

\* handle_server_dnd, Request::Accept
Accept(i, mime_type) ==
    Request("accept", i,
            [offers[i] EXCEPT !.accepted = IF mime_type = None THEN FALSE
                                           ELSE Unwrap(mime_type) \in SourceMimeTypes],
            << >>)

\* handle_server_dnd, Request::Receive
Receive(i, mime_type) ==
    Request("receive", i, offers[i],
            IF mime_type \in SourceMimeTypes /\ offers[i].active
            THEN << Event("handler.send") >> ELSE << >>)

\* handle_server_dnd, Request::Destroy
Destroy(i) == Request("destroy", i, offers[i], << >>)

\* A faulty variant of FinishOffer: the offer stays active.
FinishOfferStaysActive(data) ==
    IF ~data.active \/ ~data.accepted \/ ~data.dropped \/ data.chosen_action = {}
    THEN [data |-> data, events |-> << Event("post_error InvalidFinish") >>]
    ELSE [data |-> data, events |-> << Event("handler.finished") >>]

\* handle_server_dnd, Request::Finish: the offer data and the calls made.
FinishOffer(data) ==
    IF ~data.active THEN [data |-> data, events |-> << Event("post_error InvalidFinish") >>]
    ELSE IF ~data.accepted THEN [data |-> data, events |-> << Event("post_error InvalidFinish") >>]
    ELSE IF ~data.dropped THEN [data |-> data, events |-> << Event("post_error InvalidFinish") >>]
    ELSE IF data.chosen_action = {}
         THEN [data |-> data, events |-> << Event("post_error InvalidFinish") >>]
    ELSE [data |-> [data EXCEPT !.active = FALSE], events |-> << Event("handler.finished") >>]

Finish(i) ==
    LET r == FinishOffer(offers[i]) IN Request("finish", i, r.data, r.events)

\* handle_server_dnd, Request::SetActions; choice: what
\* handler.action_choice(possible_actions, preferred_action) returns
SetActions(i, dnd_actions, preferred_action, choice) ==
    IF preferred_action \notin OneAction
    THEN Request("set_actions", i, offers[i], << Event("post_error InvalidAction") >>)
    ELSE Request("set_actions", i, [offers[i] EXCEPT !.chosen_action = choice],
                 << ActionEvent("handler.action_choice", SourceActions \cap dnd_actions),
                    ActionEvent("offer.action", choice),
                    ActionEvent("handler.action", choice) >>)

\* A drag from its start: the pointer moves over the surfaces and the
\* button is released, and the clients send requests on the offers made.
NextDnd ==
    \/ \E focus \in {None} \cup { Some(s) : s \in Surfaces }, client_alive \in BOOLEAN :
           Motion(focus, client_alive)
    \/ \E released \in BOOLEAN : Button(released)
    \/ \E i \in 1 .. MaxOffers, mime_type \in {None} \cup { Some(m) : m \in ClientMimeTypes } :
           i <= Len(offers) /\ Accept(i, mime_type)
    \/ \E i \in 1 .. MaxOffers, mime_type \in ClientMimeTypes :
           i <= Len(offers) /\ Receive(i, mime_type)
    \/ \E i \in 1 .. MaxOffers : i <= Len(offers) /\ Destroy(i)
    \/ \E i \in 1 .. MaxOffers : i <= Len(offers) /\ Finish(i)
    \/ \E i \in 1 .. MaxOffers, dnd_actions \in ClientActions,
          preferred_action \in PreferredActions, choice \in ActionChoices :
           i <= Len(offers) /\ SetActions(i, dnd_actions, preferred_action, choice)

\* ------------------------------------------------------------------ spec
\* DamageTrackedRenderer::new (Static) and ::from_output (Auto)
Modes == { [kind |-> "Static", size |-> << 2, 2 >>, transform |-> "Normal"],
           [kind |-> "Auto", size |-> << 0, 0 >>, transform |-> "Normal"] }

\* The scenes of at most n elements.
RECURSIVE Scenes(_)
Scenes(n) ==
    IF n = 0 THEN { << >> }
    ELSE Scenes(n - 1) \cup
         { Append(sc, [id |-> id, geometry |-> g]) :
             sc \in { t \in Scenes(n - 1) : Len(t) = n - 1 }, id \in SceneIds, g \in Geoms }

\* A tracker as constructed, before its first call, and a caller that
\* starts from scene sc.
Constructed(m, sc) ==
    /\ mode = m
    /\ last_state = DefaultState
    /\ output = [current_mode |-> Some(<< 2, 2 >>), transform |-> "Normal"]
    /\ scene = sc
    /\ commit = [id \in Ids |-> 0]
    /\ ret = ErrRet("none")
    /\ backend = << >>
    /\ call = NoCall
    /\ shown = Shown("fresh", << >>, None)
    /\ repeat = FALSE
    /\ frames = 0
    /\ edits = 0
    /\ GrabStarted

Init == \E m \in Modes : Constructed(m, << >>)

Next ==
    \/ \E age \in 0 .. MaxAge : DamageOutput(age)
    \/ \E age \in 0 .. MaxAge : RenderOutput(age)
    \/ \E pos \in 1 .. MaxElems, id \in SceneIds, geometry \in Geoms : AddElement(pos, id, geometry)
    \/ \E pos \in 1 .. MaxElems : RemoveElement(pos)
    \/ \E pos \in 1 .. MaxElems, geometry \in Geoms : MoveElement(pos, geometry)
    \/ \E pos \in 1 .. MaxElems : RaiseElement(pos)
    \/ \E id \in SceneIds : Commit(id)
    \/ \E m \in {None} \cup { Some(s) : s \in Sizes }, t \in Transforms : SetOutput(m, t)

Spec == Init /\ [][Next]_vars

\* A Static tracker whose caller starts with a scene of up to MaxInitElems
\* elements: one more element per frame than under Spec.
InitScenes == \E sc \in Scenes(MaxInitElems) : Constructed(CHOOSE m \in Modes : m.kind = "Static", sc)

NextScenes ==
    \/ \E age \in 0 .. MaxAge : DamageOutput(age)
    \/ \E age \in 0 .. MaxAge : RenderOutput(age)
    \/ \E pos \in 1 .. MaxElems, id \in SceneIds, geometry \in Geoms : AddElement(pos, id, geometry)
    \/ \E pos \in 1 .. MaxElems : RemoveElement(pos)
    \/ \E pos \in 1 .. MaxElems, geometry \in Geoms : MoveElement(pos, geometry)
    \/ \E pos \in 1 .. MaxElems : RaiseElement(pos)
    \/ \E id \in SceneIds : Commit(id)

SpecScenes == InitScenes /\ [][NextScenes]_vars

\* A Static tracker called MaxListFrames times with one element list of up
\* to MaxListElems elements.
InitLists == \E sc \in Scenes(MaxListElems) : Constructed(CHOOSE m \in Modes : m.kind = "Static", sc)

NextLists ==
    \/ \E age \in 0 .. MaxAge : frames < MaxListFrames /\ DamageOutput(age)
    \/ \E age \in 0 .. MaxAge : frames < MaxListFrames /\ RenderOutput(age)

SpecLists == InitLists /\ [][NextLists]_vars

\* The drag of a compositor whose tracker is not called meanwhile.
InitDnd == Constructed(CHOOSE m \in Modes : m.kind = "Static", << >>)

SpecDnd == InitDnd /\ [][NextDnd]_vars


\* The geometries of Geoms and one that covers the whole 2x2 output, and
\* the element lists of at most n elements with these geometries.
CoverGeoms == Geoms \cup { Rect(0, 0, 2, 2) }

RECURSIVE CoverScenes(_)
CoverScenes(n) ==
    IF n = 0 THEN { << >> }
    ELSE CoverScenes(n - 1) \cup
         { Append(sc, [id |-> id, geometry |-> g]) :
             sc \in { t \in CoverScenes(n - 1) : Len(t) = n - 1 }, id \in SceneIds, g \in CoverGeoms }

\* A Static tracker called MaxListFrames times with one element list of up
\* to MaxListElems elements, some of which may cover the whole output.
InitCover ==
    \E sc \in CoverScenes(MaxListElems) : Constructed(CHOOSE m \in Modes : m.kind = "Static", sc)

SpecCover == InitCover /\ [][NextLists]_vars

\* Every occurrence of id leaves the scene.
RemoveAll(id) ==
    /\ Edit
    /\ \E i \in 1 .. Len(scene) : scene[i].id = id
    /\ scene' = SelectSeq(scene, LAMBDA e : e.id # id)
    /\ UNCHANGED << output, commit >>

\* Every occurrence of id leaves the scene and a new element enters in
\* front of the others.
Supersede(id, geometry) ==
    /\ Edit
    /\ \E i \in 1 .. Len(scene) : scene[i].id = id
    /\ scene' = << [id |-> "C", geometry |-> geometry] >> \o SelectSeq(scene, LAMBDA e : e.id # id)
    /\ UNCHANGED << output, commit >>

\* A Static tracker called MaxListFrames times with an element list of up
\* to MaxListElems elements that loses all occurrences of an id in between.
NextGone ==
    \/ \E age \in 0 .. MaxAge : frames < MaxListFrames /\ DamageOutput(age)
    \/ \E age \in 0 .. MaxAge : frames < MaxListFrames /\ RenderOutput(age)
    \/ \E id \in SceneIds : frames < MaxListFrames /\ RemoveAll(id)
    \/ \E id \in SceneIds, geometry \in Geoms : frames < MaxListFrames /\ Supersede(id, geometry)

SpecGone == InitLists /\ [][NextGone]_vars

\* ------------------------------------------------------------ properties
\* The pixels of an optional damage list.
DamageCover(damage) == IF damage = None THEN {} ELSE Cover(Unwrap(damage))

\* The last call returned Ok and the caller still holds its result.
Returned == ret.kind = "Ok"

\* The output rectangle of the last call.
Geo == Unwrap(call.output_geo)

\* What a pixel of the output shows for an element list: the layers from
\* the front down to the first opaque one, each the element's id, the
\* element-local pixel and the commit that last painted it.
Layer(e, p) ==
    LET local == << p[1] - e.geometry.x, p[2] - e.geometry.y >>
    IN  [id |-> e.id, local |-> local,
         content |-> IF local \in Cover(CommitDamage) THEN e.commit ELSE 0]

RECURSIVE View(_, _)
View(elements, p) ==
    IF elements = << >> THEN << >>
    ELSE LET e == Head(elements)
         IN  IF p \notin Pixels(e.geometry) THEN View(Tail(elements), p)
             ELSE IF ElementOpaqueRegions(e) # << >> THEN << Layer(e, p) >>
             ELSE << Layer(e, p) >> \o View(Tail(elements), p)

\* The pixels of geo that show something else for `after` than for `before`.
ChangedPixels(before, after, geo) ==
    { p \in Pixels(geo) : View(before, p) # View(after, p) }

\* C1: every pixel of the output whose content differs between the frame
\* the buffers show and the frame of a successful call lies in the damage
\* this call returns.
Completeness ==
    [][(ret'.kind = "Ok" /\ shown.status = "painted")
         => ChangedPixels(shown.elements, call'.elements, Unwrap(call'.output_geo))
              \subseteq DamageCover(ret'.damage)]_vars

\* C2: the rectangles of a returned damage list are pairwise
\* non-overlapping and each lies within output_geo.
NoOverlap ==
    (Returned /\ ret.damage # None) =>
        LET damage == Unwrap(ret.damage)
        IN  /\ \A i \in 1 .. Len(damage) : Pixels(damage[i]) \subseteq Pixels(Geo)
            /\ \A i, j \in 1 .. Len(damage) : i # j => ~Overlaps(damage[i], damage[j])

FullDamage == ret.damage = Some(<< Geo >>)

\* C3: the first call on a freshly constructed tracker that returns Ok
\* returns damage exactly [output_geo], whatever the age and the elements.
FirstFrame == (Returned /\ call.before = "fresh") => FullDamage

FirstFrameWitness ==
    /\ Returned /\ call.before = "fresh" /\ FullDamage
    /\ call.age >= 1 /\ call.elements # << >>

\* C4: when render_output returns a Rendering error the tracker holds the
\* state of a fresh tracker, and the next call that returns Ok returns
\* damage exactly [output_geo], whatever the age and the elements.
ErrorRecovery ==
    /\ ret.kind = "Rendering" => last_state = DefaultState
    /\ (Returned /\ call.before = "error") => FullDamage

ErrorRecoveryWitness ==
    /\ Returned /\ call.before = "error" /\ FullDamage
    /\ call.age >= 1 /\ call.elements # << >>

\* C5: after a first frame with age 0 on a fresh tracker, a second call
\* with age 1 and the same element list returns None damage.
UnchangedSecondFrame ==
    [][(/\ ret.kind = "Ok" /\ call.before = "fresh" /\ call.age = 0
        /\ ret'.kind = "Ok" /\ call'.age = 1
        /\ call'.elements = call.elements /\ call'.output_geo = call.output_geo)
         => ret'.damage = None]_vars

\* C6 as stated: the second of two damage_output calls in a row with the
\* same age and an unchanged element list returns None damage.
Idempotence == repeat => ret.damage = None

\* C6 as the code has it: the second of two damage_output calls in a row
\* with the same age and an unchanged element list finds no new damage
\* inside the output and returns what its age selects of the recorded
\* damage: [output_geo] with age 0 or an age beyond the history, else
\* damage that covers the part inside the output of the age most recent
\* recorded frames, and None exactly if that part is empty.
IdempotenceOfNewDamage ==
    [][repeat' =>
        LET geo == Unwrap(call'.output_geo)
            age == call'.age
            history == last_state.old_damage
            recorded == Cover(Flatten(Take(history, age))) \cap Pixels(geo)
        IN  /\ Cover(call'.new_damage) \cap Pixels(geo) = {}
            /\ IF age = 0 \/ age > Len(history)
               THEN ret'.damage = Some(<< geo >>)
               ELSE /\ recorded \subseteq DamageCover(ret'.damage)
                    /\ ret'.damage = None <=> recorded = {}]_vars

IdempotenceWitness ==
    /\ repeat /\ call.age >= 1 /\ call.history >= call.age
    /\ ret.damage # None /\ ~FullDamage

\* C7: a call with age k >= 1 on a history of at least k entries returns
\* damage that covers, inside output_geo, the damage of the k most recent
\* recorded frames and the new damage of this frame.
BufferAgeRoundTrip ==
    [][(ret'.kind = "Ok" /\ call'.age >= 1 /\ Len(last_state.old_damage) >= call'.age) =>
        LET geo == Unwrap(call'.output_geo)
            recorded == Flatten(Take(last_state.old_damage, call'.age))
        IN  (Cover(recorded) \cup Cover(call'.new_damage)) \cap Pixels(geo)
                \subseteq DamageCover(ret'.damage)]_vars

BufferAgeWitness ==
    /\ Returned /\ call.age >= 1 /\ call.history >= call.age
    /\ call.new_damage # << >> /\ ret.damage # None /\ ~FullDamage

\* C8: a call with age 0, or with an age greater than the number of
\* entries of the damage history, returns damage exactly [output_geo].
BufferAgeFallback ==
    (Returned /\ (call.age = 0 \/ call.age > call.history)) => FullDamage

BufferAgeFallbackWitness ==
    /\ Returned /\ call.before = "painted" /\ FullDamage
    /\ call.history >= 1 /\ call.age > call.history
    /\ call.size = Some(RectSize(Geo)) /\ call.new_damage = << >>

\* C9: a call whose output size differs from the recorded size returns
\* damage exactly [rect((0,0), new size)], also with a usable age.
OutputResize ==
    (Returned /\ call.size # None /\ Unwrap(call.size) # RectSize(Geo)) => FullDamage

OutputResizeWitness ==
    /\ Returned /\ call.size # None /\ Unwrap(call.size) # RectSize(Geo) /\ FullDamage
    /\ call.age >= 1 /\ call.history >= call.age

\* The pixels of the output that a backend call paints.
Painted(c) ==
    IF c.op = "clear" THEN Cover(c.damage)
    ELSE IF c.op = "draw"
         THEN Cover(MapSeq(c.damage, LAMBDA d : Translate(d, c.geometry.x, c.geometry.y)))
         ELSE {}

\* C10: a render_output that returns None damage has made no backend
\* call; one that returns Some(damage) returns a non-empty list, has opened
\* the frame and cleared, and its clear and draw calls paint the pixels of
\* damage and no other.
RenderOutputDamage ==
    (call.op = "render_output" /\ Returned) =>
        IF ret.damage = None THEN backend = << >>
        ELSE /\ Unwrap(ret.damage) # << >>
             /\ Len(backend) >= 2
             /\ backend[1].op = "render" /\ backend[2].op = "clear"
             /\ \A i \in 3 .. Len(backend) : backend[i].op = "draw"
             /\ UNION { Painted(backend[i]) : i \in 1 .. Len(backend) }
                    = DamageCover(ret.damage)

RenderOutputNoneWitness ==
    /\ call.op = "render_output" /\ Returned /\ ret.damage = None
    /\ call.elements # << >> /\ backend = << >>

\* A step is a call of damage_output or render_output.
IsCall == frames' = frames + 1

\* C11: a call on an Auto tracker whose output has no current mode returns
\* OutputNoMode, leaves size, elements and old_damage as they were and
\* makes no backend call; no other call returns OutputNoMode, so a Static
\* tracker never does.
OutputNoModeError ==
    [][IsCall =>
        IF mode.kind = "Auto" /\ output.current_mode = None
        THEN /\ ret'.kind = "OutputNoMode"
             /\ last_state' = last_state
             /\ backend' = << >>
        ELSE ret'.kind # "OutputNoMode"]_vars

OutputNoModeWitness ==
    /\ ret.kind = "OutputNoMode" /\ call.op = "render_output"
    /\ last_state.size # None /\ last_state.elements # << >> /\ last_state.old_damage # << >>

\* The pixels of the output inside the geometry of element e, and those
\* inside its opaque regions.
OnOutput(e, geo) == Pixels(e.geometry) \cap Pixels(geo)

OpaqueOnOutput(e, geo) ==
    Cover(MapSeq(ElementOpaqueRegions(e),
                 LAMBDA r : Translate(r, e.geometry.x, e.geometry.y))) \cap Pixels(geo)

\* The opaque pixels of the elements in front of position i of a list, the
\* pixels of the element at i they leave visible, and the positions with a
\* visible pixel, front to back: the render list.
OpaqueInFront(elements, i, geo) ==
    UNION { OpaqueOnOutput(elements[j], geo) : j \in 1 .. i - 1 }

VisiblePixels(elements, i, geo) == OnOutput(elements[i], geo) \ OpaqueInFront(elements, i, geo)

Occluded(elements, i, geo) ==
    OnOutput(elements[i], geo) # {} /\ VisiblePixels(elements, i, geo) = {}

RenderPositions(elements, geo) ==
    LET Upto[k \in 0 .. Len(elements)] ==
            IF k = 0 THEN << >>
            ELSE IF VisiblePixels(elements, k, geo) # {} THEN Append(Upto[k - 1], k)
            ELSE Upto[k - 1]
    IN  Upto[Len(elements)]

\* The last call was a render_output that returned damage.
Rendering == call.op = "render_output" /\ Returned /\ ret.damage # None

\* C12: the rectangles passed to clear are disjoint from the opaque
\* regions of every element of the frame, and together with them cover the
\* damage of the frame.
ClearExclusion ==
    /\ (call.op = "render_output" /\ Len(backend) >= 2) =>
           Cover(backend[2].damage)
               \cap OpaqueInFront(call.elements, Len(call.elements) + 1, Geo) = {}
    /\ Rendering =>
           DamageCover(ret.damage) \subseteq
               Cover(backend[2].damage)
                   \cup OpaqueInFront(call.elements, Len(call.elements) + 1, Geo)

ClearExclusionWitness ==
    /\ Rendering /\ backend[2].damage # << >>
    /\ DamageCover(ret.damage)
           \cap OpaqueInFront(call.elements, Len(call.elements) + 1, Geo) # {}

\* What of the damage the render element at position pos may be drawn on.
DrawShare(pos) ==
    (OnOutput(call.elements[pos], Geo) \cap DamageCover(ret.damage))
        \ OpaqueInFront(call.elements, pos, Geo)

\* C13: the damage of each draw call, in output coordinates, lies within
\* the geometry of its element and within the damage of the frame and is
\* disjoint from the opaque regions of the render elements in front of
\* it; the elements drawn are the render elements for which this set is
\* not empty.
ElementClip ==
    Rendering =>
        LET positions == RenderPositions(call.elements, Geo)
            draws == { i \in 3 .. Len(backend) : backend[i].op = "draw" }
        IN  /\ \A i \in draws :
                   LET c == backend[i]
                   IN  /\ c.z_index + 1 \in 1 .. Len(positions)
                       /\ call.elements[positions[c.z_index + 1]].id = c.id
                       /\ call.elements[positions[c.z_index + 1]].geometry = c.geometry
                       /\ Painted(c) # {}
                       /\ Painted(c) \subseteq Pixels(c.geometry) \cap DamageCover(ret.damage)
                       /\ Painted(c)
                              \cap OpaqueInFront(call.elements, positions[c.z_index + 1], Geo) = {}
            /\ { backend[i].z_index + 1 : i \in draws }
                   = { z \in 1 .. Len(positions) : DrawShare(positions[z]) # {} }

ElementClipWitness ==
    /\ Rendering
    /\ \E i \in 3 .. Len(backend) :
           /\ Painted(backend[i]) # Pixels(backend[i].geometry) \cap DamageCover(ret.damage)
           /\ backend[i].z_index >= 1

\* The list without its element at position i.
Without(elements, i) == SubSeq(elements, 1, i - 1) \o SubSeq(elements, i + 1, Len(elements))

\* C14: an element whose clipped geometry is covered by the opaque regions
\* of the elements in front of it is reported Skipped unless another
\* occurrence of its id is reported, and the call returns the damage,
\* leaves the state and makes the backend calls of the same call on the
\* list without this element.
FullOcclusion ==
    [][(IsCall /\ ret'.kind = "Ok") =>
        \A i \in 1 .. Len(call'.elements) :
            Occluded(call'.elements, i, Unwrap(call'.output_geo)) =>
                LET id == call'.elements[i].id
                    r == DamageOutputInternal(last_state, call'.age, Without(call'.elements, i),
                                              Unwrap(call'.output_geo))
                IN  /\ ret'.states[id] = IF r.states[id] = Absent THEN Skipped ELSE r.states[id]
                    /\ \A other \in Ids \ {id} : ret'.states[other] = r.states[other]
                    /\ ret'.damage = OkRet(r.damage, r.states).damage
                    /\ last_state' = r.state
                    /\ call'.op = "render_output" =>
                           backend' = PaintPlan(Unwrap(ResolveMode(mode, output)), r)]_vars

FullOcclusionWitness ==
    /\ Rendering /\ ~FullDamage
    /\ \E i \in 1 .. Len(call.elements) :
           /\ Occluded(call.elements, i, Geo)
           /\ ret.states[call.elements[i].id] = Skipped

\* The occurrences of id in a list that overlap the output, those with a
\* visible pixel, and the number of visible pixels of all of them.
Recorded(elements, id, geo) ==
    { i \in 1 .. Len(elements) : elements[i].id = id /\ OnOutput(elements[i], geo) # {} }

VisibleOccurrences(elements, id, geo) ==
    { i \in Recorded(elements, id, geo) : VisiblePixels(elements, i, geo) # {} }

VisibleSum(elements, id, geo) ==
    LET Sum[k \in 0 .. Len(elements)] ==
            IF k = 0 THEN 0
            ELSE Sum[k - 1] + (IF elements[k].id = id
                               THEN Cardinality(VisiblePixels(elements, k, geo)) ELSE 0)
    IN  Sum[Len(elements)]

\* C15: an id with a visible occurrence is reported Rendered with the sum
\* of the visible areas of its occurrences, whatever the order of its
\* visible and hidden occurrences; an id whose occurrences that overlap the
\* output are all hidden is reported Skipped; no other id is Rendered.
MultiInstanceReport ==
    Returned =>
        \A id \in Ids :
            IF VisibleOccurrences(call.elements, id, Geo) # {}
            THEN ret.states[id] = Rendered(VisibleSum(call.elements, id, Geo))
            ELSE IF Recorded(call.elements, id, Geo) # {}
                 THEN ret.states[id] = Skipped
                 ELSE ret.states[id].presentation_state # "Rendered"

MultiInstanceWitness ==
    /\ Returned
    /\ \E id \in Ids :
           LET visible == VisibleOccurrences(call.elements, id, Geo)
               hidden == Recorded(call.elements, id, Geo) \ visible
           IN  /\ \E i \in hidden, j \in visible : i < j
               /\ \E i \in visible, j \in visible : i < j

\* The elements of the call are those the buffers show, in the same order
\* with the same geometry, and of the commit counters only that of id has
\* advanced.
OnlyCommitAdvanced(before, after, id) ==
    /\ Len(after) = Len(before)
    /\ \A i \in 1 .. Len(after) :
           /\ after[i].id = before[i].id
           /\ after[i].geometry = before[i].geometry
           /\ after[i].commit = before[i].commit + (IF after[i].id = id THEN 1 ELSE 0)

\* The rectangles of CommitDamage of the visible occurrences of id,
\* translated by the location of the occurrence and clipped to geo.
CommitRects(elements, id, geo) ==
    { Unwrap(c) : c \in
        { Intersection(Translate(CommitDamage[k], elements[i].geometry.x, elements[i].geometry.y), geo) :
              k \in 1 .. Len(CommitDamage), i \in VisibleOccurrences(elements, id, geo) } \ { None } }

\* C16: after a frame that recorded no new damage, a call with age 1 on
\* the same output whose elements differ from those shown only in the
\* advanced commit counter of one id returns exactly the rectangles of
\* damage_since of the visible occurrences of that id, translated to their
\* location and clipped to the output, each once (None if there is none).
ContentChangeOnly ==
    [][\A id \in Ids :
        (/\ IsCall /\ ret'.kind = "Ok" /\ call'.age = 1
         /\ shown.status = "painted" /\ shown.output_geo = call'.output_geo
         /\ last_state.old_damage # << >> /\ Head(last_state.old_damage) = << >>
         /\ OnlyCommitAdvanced(shown.elements, call'.elements, id))
        => LET expected == CommitRects(call'.elements, id, Unwrap(call'.output_geo))
           IN  IF expected = {} THEN ret'.damage = None
               ELSE /\ ret'.damage # None
                    /\ { Unwrap(ret'.damage)[i] : i \in 1 .. Len(Unwrap(ret'.damage)) } = expected
                    /\ Len(Unwrap(ret'.damage)) = Cardinality(expected)]_vars

ContentChangeWitness ==
    /\ Returned /\ call.age = 1 /\ call.before = "painted"
    /\ Len(last_state.old_damage) >= 2 /\ last_state.old_damage[2] = << >>
    /\ \E i \in 1 .. Len(call.elements) :
           LET e == call.elements[i]
           IN  /\ e.commit = 1
               /\ ret.damage = Some(<< Rect(e.geometry.x, e.geometry.y, 1, 1) >>)
               /\ Intersection(e.geometry, Geo) # Some(Rect(e.geometry.x, e.geometry.y, 1, 1))

\* The z-index of the visible occurrence at position i of a list: the
\* number of visible occurrences in front of it.
ZIndexOf(elements, i, geo) ==
    Cardinality({ j \in 1 .. i - 1 : VisiblePixels(elements, j, geo) # {} })

\* The instances recorded under id in a tracker state.
PriorInstances(st, id) ==
    UNION { { s.last_instances[k] : k \in 1 .. Len(s.last_instances) } :
            s \in { st.elements[n] : n \in { m \in 1 .. Len(st.elements) : st.elements[m].id = id } } }

\* C17: for every visible element of a call without a recorded instance of
\* its id with its geometry and z-index, the returned damage covers its
\* geometry and the geometry of every recorded instance of its id, except
\* what opaque regions of elements in front of it cover and what lies
\* outside the output, and its id is reported Rendered with its visible
\* area.
MoveOrReorder ==
    [][(IsCall /\ ret'.kind = "Ok") =>
        LET geo == Unwrap(call'.output_geo)
            elements == call'.elements
        IN  \A i \in 1 .. Len(elements) :
                LET e == elements[i]
                    prior == PriorInstances(last_state, e.id)
                    moved == ~\E p \in prior :
                                 /\ p.last_geometry = e.geometry
                                 /\ p.last_z_index = ZIndexOf(elements, i, geo)
                    touched == Pixels(e.geometry) \cup UNION { Pixels(p.last_geometry) : p \in prior }
                IN  (VisiblePixels(elements, i, geo) # {} /\ moved) =>
                        /\ (touched \ OpaqueInFront(elements, i, geo)) \cap Pixels(geo)
                               \subseteq DamageCover(ret'.damage)
                        /\ ret'.states[e.id] = Rendered(VisibleSum(elements, e.id, geo))]_vars

MoveOrReorderWitness ==
    /\ Returned /\ ~FullDamage /\ call.before = "painted" /\ call.age >= 1
    /\ Len(call.elements) = 1
    /\ \E g \in Geoms :
           /\ g # call.elements[1].geometry
           /\ last_state.old_damage[1] = << call.elements[1].geometry, g >>
           /\ Pixels(g) \cap Pixels(Geo) \subseteq DamageCover(ret.damage)

\* The call is the first frame of a tracker without a state: after
\* construction or after a backend error.
FirstOrAfterError == Returned /\ call.before \in { "fresh", "error" }

\* C18 as stated: on the first frame after construction or after a backend
\* error every element that overlaps the output is reported Rendered.
FullRedrawReport ==
    FirstOrAfterError =>
        \A i \in 1 .. Len(call.elements) :
            OnOutput(call.elements[i], Geo) # {}
                => ret.states[call.elements[i].id].presentation_state = "Rendered"

\* C18 as the code has it: on the first frame after construction or after
\* a backend error every element that overlaps the output and is not
\* completely hidden behind opaque regions of elements in front of it is
\* reported Rendered, and an id whose occurrences that overlap the output
\* are all completely hidden is reported Skipped.
FullRedrawVisibleReport ==
    FirstOrAfterError =>
        \A i \in 1 .. Len(call.elements) :
            LET id == call.elements[i].id
            IN  /\ VisiblePixels(call.elements, i, Geo) # {}
                       => ret.states[id].presentation_state = "Rendered"
                /\ (Occluded(call.elements, i, Geo) /\ VisibleOccurrences(call.elements, id, Geo) = {})
                       => ret.states[id] = Skipped

FullRedrawWitness ==
    /\ Returned /\ call.before = "error" /\ FullDamage
    /\ \E i \in 1 .. Len(call.elements) :
           Occluded(call.elements, i, Geo) /\ ret.states[call.elements[i].id] = Skipped
    /\ \E i \in 1 .. Len(call.elements) :
           /\ Cardinality(VisiblePixels(call.elements, i, Geo)) = 1
           /\ ret.states[call.elements[i].id].presentation_state = "Rendered"

ReturnsNoDamage == IsCall /\ ret'.kind = "Ok" /\ ret'.damage = None

\* A tracker state records exactly the visible elements of a list, each
\* with its geometry and z-index.
RecordsRenderList(st, elements, geo) ==
    /\ \A i \in 1 .. Len(elements) :
           VisiblePixels(elements, i, geo) # {} =>
               \E p \in PriorInstances(st, elements[i].id) :
                   /\ p.last_geometry = elements[i].geometry
                   /\ p.last_z_index = ZIndexOf(elements, i, geo)
    /\ \A n \in 1 .. Len(st.elements) :
           Len(st.elements[n].last_instances) =
               Cardinality(VisibleOccurrences(elements, st.elements[n].id, geo))

RecordedOutput(st) == FromLocAndSize(<< 0, 0 >>, Unwrap(st.size))

StoredGeometries(st) ==
    UNION { { st.elements[n].last_instances[k].last_geometry :
                  k \in 1 .. Len(st.elements[n].last_instances) } : n \in 1 .. Len(st.elements) }

StoredDamage(st) ==
    UNION { { st.old_damage[n][k] : k \in 1 .. Len(st.old_damage[n]) } : n \in 1 .. Len(st.old_damage) }

\* C21 as stated: every rectangle stored in the state, geometry of a
\* recorded instance or rectangle of a history entry, lies within the
\* rectangle of the recorded output size.
StoredWithinOutput ==
    last_state.size # None =>
        \A r \in StoredGeometries(last_state) \cup StoredDamage(last_state) :
            Pixels(r) \subseteq Pixels(RecordedOutput(last_state))

\* C21 as the code has it: the geometry of every recorded instance is the
\* whole geometry of an element that overlaps the rectangle of the
\* recorded output size; it shares a pixel with it.
StoredOverlapsOutput ==
    last_state.size # None =>
        \A r \in StoredGeometries(last_state) :
            Pixels(r) \cap Pixels(RecordedOutput(last_state)) # {}

StoredOverlapsWitness ==
    /\ last_state.size = Some(<< 2, 1 >>)
    /\ call.size = Some(<< 2, 2 >>)
    /\ \E r \in StoredGeometries(last_state) :
           ~(Pixels(r) \subseteq Pixels(RecordedOutput(last_state)))

\* The history a call keeps: the age most recent entries for a usable
\* age, all of it otherwise.
KeptHistory(st, age) ==
    IF age > 0 /\ age <= Len(st.old_damage) THEN Take(st.old_damage, age) ELSE st.old_damage

\* C22: after every call that returns Ok the front of old_damage is the
\* new damage of that call, the damage of phases A-D before the recorded
\* damage is added and before it is clipped and merged (empty if the
\* buffers already show the elements of the call), and behind it follow
\* the entries the call kept of the history, in their order.
HistoryOrdering ==
    [][(IsCall /\ ret'.kind = "Ok") =>
        /\ last_state'.old_damage # << >>
        /\ Head(last_state'.old_damage) = call'.new_damage
        /\ IF ret'.damage = None
           THEN last_state'.old_damage = KeptHistory(last_state, call'.age)
           ELSE Tail(last_state'.old_damage) = KeptHistory(last_state, call'.age)
        /\ (/\ shown.status = "painted" /\ shown.elements = call'.elements
            /\ shown.output_geo = call'.output_geo)
               => Head(last_state'.old_damage) = << >>]_vars

HistoryOrderingWitness ==
    /\ Returned /\ ret.damage # None /\ call.age >= 1 /\ call.history >= call.age
    /\ Len(last_state.old_damage) >= 2
    /\ last_state.old_damage[1] # << >> /\ last_state.old_damage[2] # << >>
    /\ Cover(last_state.old_damage[1]) # DamageCover(ret.damage)
    /\ Cover(last_state.old_damage[2]) \subseteq DamageCover(ret.damage)

\* The element states of the render list of a call, built from the element
\* list: one entry per id with a visible occurrence, in the order of the
\* first visible occurrences, with the commit of that occurrence and one
\* instance per visible occurrence.
RenderListState(elements, geo) ==
    LET visible == RenderPositions(elements, geo)
        firsts == SelectSeq(visible,
                      LAMBDA i : \A j \in 1 .. i - 1 :
                          ~(elements[j].id = elements[i].id /\ VisiblePixels(elements, j, geo) # {}))
    IN  [n \in 1 .. Len(firsts) |->
            LET id == elements[firsts[n]].id
                occurrences == SelectSeq(visible, LAMBDA i : elements[i].id = id)
            IN  [id |-> id,
                 last_commit |-> elements[firsts[n]].commit,
                 last_instances |->
                     [k \in 1 .. Len(occurrences) |->
                         [last_geometry |-> elements[occurrences[k]].geometry,
                          last_z_index |-> ZIndexOf(elements, occurrences[k], geo)]]]]

OpaqueBelowIndex(elements, z, geo) ==
    UNION { OpaqueOnOutput(elements[j], geo) :
                j \in { k \in 1 .. Len(elements) :
                            /\ VisiblePixels(elements, k, geo) # {}
                            /\ ZIndexOf(elements, k, geo) < z } }

\* The recorded ids without an occurrence in the render list of a call.
GoneIds(st, elements, geo) ==
    { st.elements[n].id : n \in 1 .. Len(st.elements) } \
    { elements[i].id : i \in { k \in 1 .. Len(elements) : VisiblePixels(elements, k, geo) # {} } }

\* C24: in a call on an output of the recorded size, the new damage holds
\* of every instance of a recorded id that is gone from the render list
\* each pixel of its last_geometry that no opaque region with a z-index
\* less than the last_z_index of that instance covers.
DisappearedElements ==
    [][(IsCall /\ ret'.kind = "Ok" /\ last_state.size = Some(RectSize(Unwrap(call'.output_geo)))) =>
        LET geo == Unwrap(call'.output_geo)
        IN  \A id \in GoneIds(last_state, call'.elements, geo) :
                \A p \in PriorInstances(last_state, id) :
                    (Pixels(p.last_geometry) \cap Pixels(geo))
                        \ OpaqueBelowIndex(call'.elements, p.last_z_index, geo)
                    \subseteq Cover(call'.new_damage)]_vars

\* The backend calls of the last call that are draws.
Draws == { i \in 1 .. Len(backend) : backend[i].op = "draw" }

\* C25: the backend calls of a render_output are the opening of the frame,
\* then one clear, then draws only; the draws go through the render list
\* from back to front, and the z-index of each draw is the position in
\* the render list of the element it draws, under which its opaque
\* regions are recorded: the draw paints what of the damage lies in the
\* element and is not covered by opaque regions of render elements with a
\* smaller index.
PaintOrder ==
    (call.op = "render_output" /\ backend # << >>) =>
        LET render_list == RenderPositions(call.elements, Geo)
        IN  /\ backend[1].op = "render"
            /\ Len(backend) >= 2 => backend[2].op = "clear"
            /\ \A i \in 3 .. Len(backend) : backend[i].op = "draw"
            /\ \A i \in Draws, j \in Draws : i < j => backend[i].z_index > backend[j].z_index
            /\ \A i \in Draws :
                   LET z == backend[i].z_index
                   IN  /\ z \in 0 .. Len(render_list) - 1
                       /\ call.elements[render_list[z + 1]].id = backend[i].id
                       /\ call.elements[render_list[z + 1]].geometry = backend[i].geometry
                       /\ ZIndexOf(call.elements, render_list[z + 1], Geo) = z
                       /\ Rendering => Painted(backend[i]) = DrawShare(render_list[z + 1])

PaintOrderWitness ==
    /\ Rendering /\ Cardinality(Draws) = 2
    /\ Len(call.elements) = 3 /\ Occluded(call.elements, 2, Geo)
    /\ backend[3].z_index = 1 /\ backend[3].geometry = call.elements[3].geometry
    /\ backend[4].z_index = 0 /\ backend[4].geometry # call.elements[3].geometry

\* The backend calls of the last call that returned an error.
Failed == { i \in 1 .. Len(backend) : ~backend[i].ok }

\* C26: a backend call that fails is the last backend call of its
\* render_output, and the call returns the Rendering error without damage
\* and without a report; no other call returns the Rendering error.
ErrorHalts ==
    /\ \A i \in Failed : i = Len(backend)
    /\ Failed # {} <=> ret.kind = "Rendering"
    /\ ret.kind = "Rendering" =>
           /\ call.op = "render_output"
           /\ ret.damage = None
           /\ \A id \in Ids : ret.states[id] = Absent

ErrorHaltsWitness ==
    /\ ret.kind = "Rendering" /\ call.before = "fresh"
    /\ Len(RenderPositions(call.elements, Geo)) >= 2
    /\ Len(backend) = 3 /\ Failed = { 3 }

\* C27: of the history a call that ran the analysis to its end finds, a
\* usable age (0 < age <= len) keeps the age most recent entries, so that
\* at most age + 1 entries are held afterwards; any other age keeps every
\* entry; a call that updates the state (it returns damage) puts exactly
\* one entry in front of what is kept, no other call adds one; with age 0
\* the history is one entry longer after the call.
HistoryLength ==
    [][(IsCall /\ ret'.kind = "Ok") =>
        LET before == last_state.old_damage
            after == last_state'.old_damage
            age == call'.age
            pushed == IF ret'.damage = None THEN 0 ELSE 1
        IN  /\ (age > 0 /\ age <= Len(before)) =>
                   /\ Len(after) = age + pushed
                   /\ Len(after) <= age + 1
                   /\ SubSeq(after, pushed + 1, Len(after)) = SubSeq(before, 1, age)
            /\ (age = 0 \/ age > Len(before)) =>
                   /\ Len(after) = Len(before) + 1
                   /\ Tail(after) = before
                   /\ pushed = 1
            /\ age = 0 => Len(after) = Len(before) + 1]_vars

HistoryLengthWitness ==
    /\ Returned /\ ret.damage # None
    /\ call.age = 1 /\ call.history = 2
    /\ Len(last_state.old_damage) = 2

\* The pixels of the output inside the opaque regions of the render
\* elements in front of position i of a list.
OpaqueOfRenderList(elements, i, geo) ==
    LET positions == RenderPositions(elements, geo)
    IN  UNION { OpaqueOnOutput(elements[positions[k]], geo) :
                    k \in { n \in 1 .. Len(positions) : positions[n] < i } }

\* The positions of id in a list.
Occurrences(elements, id) == { i \in 1 .. Len(elements) : elements[i].id = id }

\* C28: an id with a single occurrence in the list is reported Rendered
\* with the number of pixels of its geometry on the output that lie in no
\* opaque region of a render element in front of it, each pixel counted
\* once, if there is such a pixel, and is not reported Rendered otherwise;
\* no id is reported Rendered with a visible area of 0.
VisibleAreaReport ==
    Returned =>
        \A id \in Ids :
            /\ ret.states[id].presentation_state = "Rendered" => ret.states[id].visible_area > 0
            /\ \A i \in Occurrences(call.elements, id) :
                   Occurrences(call.elements, id) = { i } =>
                       LET visible == OnOutput(call.elements[i], Geo)
                                          \ OpaqueOfRenderList(call.elements, i, Geo)
                       IN  IF visible # {}
                           THEN ret.states[id] = Rendered(Cardinality(visible))
                           ELSE ret.states[id].presentation_state # "Rendered"

VisibleAreaWitness ==
    /\ Returned
    /\ \E i \in 1 .. Len(call.elements) :
           LET positions == RenderPositions(call.elements, Geo)
           IN  /\ Occurrences(call.elements, call.elements[i].id) = { i }
               /\ ret.states[call.elements[i].id].presentation_state = "Rendered"
               /\ \E j \in 1 .. Len(positions), k \in 1 .. Len(positions) :
                      /\ positions[j] < positions[k] /\ positions[k] < i
                      /\ OpaqueOnOutput(call.elements[positions[j]], Geo)
                             \cap OpaqueOnOutput(call.elements[positions[k]], Geo)
                             \cap OnOutput(call.elements[i], Geo) # {}

\* C29: every call that does not return the Rendering error, render_output
\* or damage_output, returns the damage and the report and leaves the state
\* that the analysis gives for the state before the call, the age and the
\* elements, whichever of the two it is; with an unresolved mode both return
\* OutputNoMode and leave the state alone.
SameAnalysis ==
    [][(IsCall /\ ret'.kind # "Rendering") =>
        LET resolved == ResolveMode(mode, output)
        IN  IF resolved = None
            THEN ret'.kind = "OutputNoMode" /\ ret'.damage = None /\ last_state' = last_state
            ELSE LET r == DamageOutputInternal(last_state, call'.age, call'.elements,
                                               OutputGeo(Unwrap(resolved)))
                 IN  /\ ret'.kind = "Ok"
                     /\ ret'.damage = (IF r.damage = << >> THEN None ELSE Some(r.damage))
                     /\ ret'.states = r.states
                     /\ last_state' = r.state]_vars

SameAnalysisWitness ==
    /\ call.op = "render_output" /\ Returned /\ ret.damage = None
    /\ call.history >= 1 /\ call.elements # << >>
    /\ backend = << >>

\* A pointer event or a request of the drag has been handled.
IsRequest == requests' = requests + 1

\* The offer data allows a Finish: active, accepted, dropped, with an action.
Finishable(data) ==
    data.active /\ data.accepted /\ data.dropped /\ data.chosen_action # {}

\* C30: a Finish request on an offer that is active, accepted, dropped and
\* has a chosen action calls handler.finished once and does nothing else
\* but set the offer inactive; on any other offer it does nothing but post
\* InvalidFinish and leaves the offer data as it was; a Finish on an offer
\* that has been finished posts the error, and handler.finished has been
\* called at most once for every offer.
OfferFinish ==
    [][(IsRequest /\ dnd'.request = "finish") =>
        LET i == dnd'.offer
        IN  /\ \A k \in 1 .. Len(offers) : k # i => offers'[k] = offers[k] /\ finished'[k] = finished[k]
            /\ IF Finishable(offers[i])
               THEN /\ dnd'.events = << Event("handler.finished") >>
                    /\ offers'[i] = [offers[i] EXCEPT !.active = FALSE]
                    /\ finished'[i] = finished[i] + 1
               ELSE /\ dnd'.events = << Event("post_error InvalidFinish") >>
                    /\ offers'[i] = offers[i]
                    /\ finished'[i] = finished[i]
            /\ finished[i] >= 1 => dnd'.events = << Event("post_error InvalidFinish") >>
            /\ \A k \in 1 .. Len(offers) : finished'[k] <= 1]_vars

OfferFinishWitness ==
    /\ dnd.request = "finish" /\ dnd.events = << Event("post_error InvalidFinish") >>
    /\ finished[dnd.offer] = 1
    /\ offers[dnd.offer].accepted /\ offers[dnd.offer].dropped
    /\ offers[dnd.offer].chosen_action # {}

\* The positions of the calls named name among the calls of a step.
CallsNamed(events, name) == { k \in 1 .. Len(events) : events[k].call = name }

\* The grab holds an offer that is accepted and has a chosen action.
OfferValid ==
    /\ offer_data # None
    /\ offers[Unwrap(offer_data)].accepted
    /\ offers[Unwrap(offer_data)].chosen_action # {}

\* C31: a button event that leaves no button pressed releases the grab and
\* notifies dropped once; if the offer of the grab is accepted and has a
\* chosen action, drop is sent to the focused client, the offer is marked
\* dropped and stays as it was otherwise, and cancelled is not notified; if
\* not, no drop is sent, cancelled is notified and the offer, if there is
\* one, is made inactive; leave is sent after a drop and whenever a surface
\* has the focus. A motion that takes the focus from a surface makes the
\* offer of that surface inactive; every offer but the one the grab holds
\* is inactive, and a Receive on an inactive offer sends nothing.
DropHandling ==
    [][IsRequest =>
        LET events == dnd'.events
            drops == CallsNamed(events, "device.drop")
            leaves == CallsNamed(events, "device.leave")
        IN  /\ dnd'.request = "button" =>
                /\ grab /\ ~grab'
                /\ Cardinality(CallsNamed(events, "handler.dropped")) = 1
                /\ CallsNamed(events, "handle.unset_grab") = { Len(events) }
                /\ \A d \in drops : \E l \in leaves : d < l
                /\ current_focus # None => leaves # {}
                /\ IF OfferValid
                   THEN /\ current_focus # None
                        /\ Cardinality(drops) = 1
                        /\ CallsNamed(events, "handler.cancelled") = {}
                        /\ offers' = [offers EXCEPT ![Unwrap(offer_data)].dropped = TRUE]
                   ELSE /\ drops = {}
                        /\ Cardinality(CallsNamed(events, "handler.cancelled")) = 1
                        /\ offers' = IF offer_data = None THEN offers
                                     ELSE [offers EXCEPT ![Unwrap(offer_data)].active = FALSE]
            /\ dnd'.request = "button_pressed" =>
                /\ grab' = grab /\ offers' = offers /\ events = << >>
            /\ (dnd'.request = "motion" /\ current_focus # None /\ current_focus' # current_focus) =>
                /\ offer_data # None
                /\ ~offers'[Unwrap(offer_data)].active
                /\ leaves # {}
            /\ \A i \in 1 .. Len(offers') : Some(i) # offer_data' => ~offers'[i].active
            /\ (dnd'.request = "receive" /\ ~offers[dnd'.offer].active) =>
                /\ events = << >>
                /\ offers' = offers]_vars

DropHandlingWitness ==
    /\ dnd.request = "button" /\ ~grab
    /\ Len(offers) = 2 /\ dnd.offer = 2
    /\ ~offers[1].active
    /\ offers[2].active /\ offers[2].dropped
    /\ CallsNamed(dnd.events, "device.drop") # {}

====
